---- MODULE Spec2Model ----
(***************************************************************************)
(* Model of the "simple.boolean.check" control (mappers/detail.py and      *)
(* mappers/display.py) and of the way the mapper tests drive the two       *)
(* mappers: a payload is loaded, detail.main maps it, the result is        *)
(* spliced into the payload's `detail`, display.main renders it, and the   *)
(* tests call the mappers again with the same or with changed inputs.      *)
(***************************************************************************)
EXTENDS Integers, Sequences, FiniteSets, TLC

(***************************************************************************)
(* Bounds of the input universes.                                          *)
(***************************************************************************)
\* integers 0..MaxInt occur as `check_passed` / `passed` values
MaxInt == 1
\* summary totals 10, 20, ..., 10*MaxTotals occur in `detail.summary.total`
MaxTotals == 2

(***************************************************************************)
(* State.                                                                  *)
(***************************************************************************)
VARIABLES
    fixture,      \* the payload as loaded (fixture file or test literal)
    occ,          \* the occurrence handed to the mappers
    att,          \* the attestation handed to display.main
    ctx,          \* the context handed to both mappers
    pc,           \* "loaded", "mapped", "spliced" or "displayed"
    mapped,       \* the call of detail.main on this fixture, if made
    shown,        \* the call of display.main on this fixture, if made
    remapped,     \* the call of detail.main on the spliced occurrence, if made
    prev          \* the calls made on the previous inputs

\* the test session: what is on disk and what pytest has done so far
VARIABLES
    mappers,      \* the mapper modules that can be imported
    payloads_dir, \* testing/payloads: missing, or its *.json files
    test,         \* the test function that is running, or "none"
    loaded,       \* the payloads the running test got from its fixture
    idx,          \* position of the running test's loop in `loaded`
    invoked,      \* positions the running test has called a mapper on
    verdicts      \* the outcome of every test function run so far

\* one use of the json_diff helper
VARIABLES
    expected,     \* first argument
    actual,       \* second argument
    hash_order,   \* the order in which this run iterates a set of keys
    report        \* the call of json_diff on them, if made

\* one use of the assert_structure helper
VARIABLES
    subject,      \* the object checked
    shape,        \* the structure it is checked against
    asserted      \* the call of assert_structure on them, if made

mvars == <<fixture, occ, att, ctx, pc, mapped, shown, remapped, prev>>
hvars == <<mappers, payloads_dir, test, loaded, idx, invoked, verdicts>>
dvars == <<expected, actual, hash_order, report>>
avars == <<subject, shape, asserted>>
vars == <<mvars, hvars, dvars, avars>>

NotCalled == [called |-> FALSE]
Call(args, out) == [called |-> TRUE, args |-> args, out |-> out]

(***************************************************************************)
(* JSON / Python values, tagged by kind.                                   *)
(***************************************************************************)
None == [k |-> "none"]
Bool(b) == [k |-> "bool", b |-> b]
Num(n) == [k |-> "int", n |-> n]
Str(s) == [k |-> "str", s |-> s]
Dict(m) == [k |-> "dict", m |-> m]
List(l) == [k |-> "list", l |-> l]

\* the empty dict {}
EmptyMap == [x \in {} |-> None]

IsDict(v) == v.k = "dict"
IsStr(v) == v.k = "str"
HasKey(v, key) == IsDict(v) /\ key \in DOMAIN v.m

(***************************************************************************)
(* Outcome of a call: a returned value or a raised exception.              *)
(***************************************************************************)
Ret(v) == [ok |-> TRUE, val |-> v]
Raise(e) == [ok |-> FALSE, exc |-> e]

(***************************************************************************)
(* obj.get(key, default): only a dict has the attribute `get`; on None, a  *)
(* list, a string or a number the attribute lookup raises AttributeError.  *)
(***************************************************************************)
PyGet(obj, key, default) ==
    IF IsDict(obj)
    THEN Ret(IF key \in DOMAIN obj.m THEN obj.m[key] ELSE default)
    ELSE Raise("AttributeError")

(***************************************************************************)
(* str(v) as used by the f-string f'Value: {passed}'.                      *)
(***************************************************************************)
Digit(d) ==
    CASE d = 0 -> "0" [] d = 1 -> "1" [] d = 2 -> "2" [] d = 3 -> "3"
      [] d = 4 -> "4" [] d = 5 -> "5" [] d = 6 -> "6" [] d = 7 -> "7"
      [] d = 8 -> "8" [] d = 9 -> "9"

RECURSIVE IntStr(_)
IntStr(n) ==
    IF n < 0 THEN "-" \o IntStr(0 - n)
    ELSE IF n < 10 THEN Digit(n)
    ELSE IntStr(n \div 10) \o Digit(n % 10)

\* faulty: renders booleans the JSON way
PyStr_json(v) ==
    CASE v.k = "none" -> "null"
      [] v.k = "bool" -> (IF v.b THEN "true" ELSE "false")
      [] v.k = "int" -> IntStr(v.n)
      [] v.k = "str" -> v.s
      [] v.k = "dict" /\ DOMAIN v.m = {} -> "{}"
      [] v.k = "list" /\ v.l = <<>> -> "[]"

PyStr(v) ==
    CASE v.k = "none" -> "None"
      [] v.k = "bool" -> (IF v.b THEN "True" ELSE "False")
      [] v.k = "int" -> IntStr(v.n)
      [] v.k = "str" -> v.s
      [] v.k = "dict" /\ DOMAIN v.m = {} -> "{}"
      [] v.k = "list" /\ v.l = <<>> -> "[]"

(***************************************************************************)
(* mappers/detail.py: main(occurrence, context), preceded by faulty        *)
(* variants of it.                                                         *)
(***************************************************************************)
\* reads the key `passed` instead of `check_passed`
detail_main_wrong_key(occurrence, context) ==
    LET detail == PyGet(occurrence, "detail", Dict(EmptyMap)) IN
    IF ~detail.ok THEN detail
    ELSE LET value == PyGet(detail.val, "passed", Bool(FALSE)) IN
         IF ~value.ok THEN value
         ELSE Ret(Dict([passed |-> value.val]))

\* defaults an absent `check_passed` to True
detail_main_default_true(occurrence, context) ==
    LET detail == PyGet(occurrence, "detail", Dict(EmptyMap)) IN
    IF ~detail.ok THEN detail
    ELSE LET value == PyGet(detail.val, "check_passed", Bool(TRUE)) IN
         IF ~value.ok THEN value
         ELSE Ret(Dict([passed |-> value.val]))

\* guards a null occurrence with `if occurrence is None: return None`
detail_main_returns_none(occurrence, context) ==
    IF occurrence = None THEN Ret(None)
    ELSE LET detail == PyGet(occurrence, "detail", Dict(EmptyMap)) IN
         IF ~detail.ok THEN detail
         ELSE LET value == PyGet(detail.val, "check_passed", Bool(FALSE)) IN
              IF ~value.ok THEN value
              ELSE Ret(Dict([passed |-> value.val]))

\* keeps module-level state: only the first call after import reads the
\* occurrence, later calls report the default
detail_main_stateful(occurrence, context) ==
    LET detail == PyGet(occurrence, "detail", Dict(EmptyMap)) IN
    IF ~detail.ok THEN detail
    ELSE LET value == PyGet(detail.val, "check_passed", Bool(FALSE)) IN
         IF ~value.ok THEN value
         ELSE IF prev.mapped.called THEN Ret(Dict([passed |-> Bool(FALSE)]))
         ELSE Ret(Dict([passed |-> value.val]))

\* reads occurrence['detail'], which raises KeyError when the key is absent
detail_main_subscript(occurrence, context) ==
    IF ~IsDict(occurrence) THEN Raise("TypeError")
    ELSE IF "detail" \notin DOMAIN occurrence.m THEN Raise("KeyError")
    ELSE LET value == PyGet(occurrence.m["detail"], "check_passed", Bool(FALSE)) IN
         IF ~value.ok THEN value
         ELSE Ret(Dict([passed |-> value.val]))

detail_main(occurrence, context) ==
    LET detail == PyGet(occurrence, "detail", Dict(EmptyMap)) IN
    IF ~detail.ok THEN detail
    ELSE LET value == PyGet(detail.val, "check_passed", Bool(FALSE)) IN
         IF ~value.ok THEN value
         ELSE Ret(Dict([passed |-> value.val]))

(***************************************************************************)
(* mappers/display.py: main(occurrence, attestation, context).             *)
(***************************************************************************)
DESCRIPTION == "A simple boolean check - the most minimal control possible"

\* faulty: leaves the tag empty when the value is False
display_main_blank_tag(occurrence, attestation, context) ==
    LET detail == PyGet(occurrence, "detail", Dict(EmptyMap)) IN
    IF ~detail.ok THEN detail
    ELSE LET passed == PyGet(detail.val, "passed", Bool(FALSE)) IN
         IF ~passed.ok THEN passed
         ELSE Ret(Dict([description |-> Str(DESCRIPTION),
                        tag |-> Str(IF passed.val = Bool(FALSE) THEN ""
                                    ELSE "Value: " \o PyStr(passed.val))]))

\* faulty: puts the result into the description
display_main_result_in_description(occurrence, attestation, context) ==
    LET detail == PyGet(occurrence, "detail", Dict(EmptyMap)) IN
    IF ~detail.ok THEN detail
    ELSE LET passed == PyGet(detail.val, "passed", Bool(FALSE)) IN
         IF ~passed.ok THEN passed
         ELSE Ret(Dict([description |->
                            Str("A simple boolean check: " \o PyStr(passed.val)),
                        tag |-> Str("Value: " \o PyStr(passed.val))]))

\* faulty: a fixed tag that ignores the value
display_main_fixed_tag(occurrence, attestation, context) ==
    LET detail == PyGet(occurrence, "detail", Dict(EmptyMap)) IN
    IF ~detail.ok THEN detail
    ELSE LET passed == PyGet(detail.val, "passed", Bool(FALSE)) IN
         IF ~passed.ok THEN passed
         ELSE Ret(Dict([description |-> Str(DESCRIPTION),
                        tag |-> Str("Value: checked")]))

\* faulty: reads attestation.get('result') and shows it in the tag
display_main_reads_attestation(occurrence, attestation, context) ==
    LET detail == PyGet(occurrence, "detail", Dict(EmptyMap)) IN
    IF ~detail.ok THEN detail
    ELSE LET passed == PyGet(detail.val, "passed", Bool(FALSE)) IN
         IF ~passed.ok THEN passed
         ELSE LET result == PyGet(attestation, "result", Str("unknown")) IN
              IF ~result.ok THEN result
              ELSE Ret(Dict([description |-> Str(DESCRIPTION),
                             tag |-> Str("Value: " \o PyStr(passed.val)
                                           \o " (" \o PyStr(result.val) \o ")")]))

\* faulty: adds a violations table whose column type is not in the schema
display_main_bad_violations(occurrence, attestation, context) ==
    LET detail == PyGet(occurrence, "detail", Dict(EmptyMap)) IN
    IF ~detail.ok THEN detail
    ELSE LET passed == PyGet(detail.val, "passed", Bool(FALSE)) IN
         IF ~passed.ok THEN passed
         ELSE Ret(Dict([description |-> Str(DESCRIPTION),
                        tag |-> Str("Value: " \o PyStr(passed.val)),
                        violations |->
                          Dict([columns |->
                            Dict([check |->
                              Dict([name |-> Str("Check"),
                                    type |-> Str("boolean")])])])]))

display_main(occurrence, attestation, context) ==
    LET detail == PyGet(occurrence, "detail", Dict(EmptyMap)) IN
    IF ~detail.ok THEN detail
    ELSE LET passed == PyGet(detail.val, "passed", Bool(FALSE)) IN
         IF ~passed.ok THEN passed
         ELSE Ret(Dict([description |-> Str(DESCRIPTION),
                        tag |-> Str("Value: " \o PyStr(passed.val))]))

(***************************************************************************)
(* {**payload, "detail": mapped_detail}: a new dict with the payload's     *)
(* keys and `detail` set to the mapped detail.                             *)
(***************************************************************************)
\* faulty: builds {"detail": mapped_detail} without the payload's fields
occurrence_with_detail_only(payload, mapped_detail) ==
    Dict([detail |-> mapped_detail])

occurrence_with_detail(payload, mapped_detail) ==
    Dict(("detail" :> mapped_detail) @@ payload.m)

\* faulty: splices in place, payload["detail"] = mapped_detail
payload_after_splice_in_place(payload, mapped_detail) ==
    Dict(("detail" :> mapped_detail) @@ payload.m)

\* the payload object after the splice: the dict display builds a new dict,
\* the payload is only read
payload_after_splice(payload, mapped_detail) == payload

(***************************************************************************)
(* Test data of the mapper tests, and the input universes built from it.   *)
(***************************************************************************)
empty_context == Dict(EmptyMap)
empty_attestation == Dict(EmptyMap)
sample_policy == Dict([required |-> Bool(TRUE)])
sample_attestation ==
    Dict([policy |-> Dict([data |-> sample_policy]), result |-> Str("pass")])
empty_occurrence == Dict([detail |-> Dict(EmptyMap)])
malformed_occurrence ==
    Dict([asset |-> None, detail |-> Dict([scan |-> None]),
          status |-> Str("complete"), type |-> Str("occurrence")])

Contexts == {None, empty_context, Dict([env |-> Str("test")])}
Attestations == {None, empty_attestation, sample_attestation}

\* values of `check_passed` and of `passed`
PassedVals ==
    {None, Bool(TRUE), Bool(FALSE), Str("True"), Str("1")}
      \cup {Num(n) : n \in 0..MaxInt}
Summaries == {Dict([total |-> Num(10 * i)]) : i \in 1..MaxTotals}

\* `detail` values that are mappings
DetailMaps ==
    {EmptyMap, [scan |-> None]}
      \cup {[summary |-> s] : s \in Summaries}
      \cup {[check_passed |-> v] : v \in PassedVals}
      \cup {[check_passed |-> Bool(b), scan |-> None] : b \in BOOLEAN}
      \cup {[passed |-> v] : v \in PassedVals}
      \cup {[passed |-> Bool(b), summary |-> s] : b \in BOOLEAN, s \in Summaries}
\* `detail` values: mappings, null, and malformed (non-mapping) values
Details == {Dict(m) : m \in DetailMaps} \cup {None, Str("n/a"), List(<<>>)}

\* the fields of an occurrence other than `detail`, as in malformed_occurrence
BaseFields ==
    [asset |-> None, status |-> Str("complete"), type |-> Str("occurrence")]
\* the `detail` mappings that occur together with the other fields
BaseDetailMaps ==
    {[scan |-> None]}
      \cup {[check_passed |-> Bool(b), scan |-> None] : b \in BOOLEAN}
      \cup {[passed |-> Bool(b)] : b \in BOOLEAN}
\* null, a non-mapping, occurrences without `detail`, occurrences with only
\* `detail`, and occurrences with `detail` and the other fields
Occurrences ==
    {None, List(<<>>), Dict(EmptyMap), Dict(BaseFields)}
      \cup {Dict([detail |-> d]) : d \in Details}
      \cup {Dict(("detail" :> Dict(m)) @@ BaseFields) : m \in BaseDetailMaps}

\* no test session
NoSession ==
    /\ mappers = {"detail", "display"}
    /\ payloads_dir = [exists |-> FALSE]
    /\ test = "none"
    /\ loaded = <<>>
    /\ idx = 0
    /\ invoked = {}
    /\ verdicts = <<>>

\* json_diff not in use
NoDiff ==
    /\ expected = None
    /\ actual = None
    /\ hash_order = <<"a", "b">>
    /\ report = NotCalled

\* assert_structure is not in use
NoAssert ==
    /\ subject = None
    /\ shape = None
    /\ asserted = NotCalled

Init ==
    /\ NoSession
    /\ NoDiff
    /\ NoAssert
    /\ fixture \in Occurrences
    /\ occ = fixture
    /\ att \in Attestations
    /\ ctx \in Contexts
    /\ pc = "loaded"
    /\ mapped = NotCalled
    /\ shown = NotCalled
    /\ remapped = NotCalled
    /\ prev = [mapped |-> NotCalled, shown |-> NotCalled]

\* mapped_detail = detail_mapper.main(payload, context)
run_detail ==
    /\ pc = "loaded"
    /\ mapped' = Call(<<occ, ctx>>, detail_main(occ, ctx))
    /\ pc' = "mapped"
    /\ UNCHANGED <<fixture, occ, att, ctx, shown, prev, remapped>>
    /\ UNCHANGED <<hvars, dvars, avars>>

\* occurrence_with_detail = {**payload, "detail": mapped_detail}
splice_detail ==
    /\ pc = "mapped"
    /\ mapped.out.ok
    /\ occ' = occurrence_with_detail(fixture, mapped.out.val)
    /\ fixture' = payload_after_splice(fixture, mapped.out.val)
    /\ pc' = "spliced"
    /\ UNCHANGED <<att, ctx, mapped, shown, prev, remapped>>
    /\ UNCHANGED <<hvars, dvars, avars>>

\* result = display_mapper.main(occurrence, attestation, context): on the
\* occurrence as given (unit tests) or on the spliced one (integration test)
run_display ==
    /\ pc \in {"loaded", "spliced"}
    /\ shown' = Call(<<occ, att, ctx>>, display_main(occ, att, ctx))
    /\ pc' = "displayed"
    /\ UNCHANGED <<fixture, occ, att, ctx, mapped, prev, remapped>>
    /\ UNCHANGED <<hvars, dvars, avars>>

\* detail_mapper.main(occurrence_with_detail, context): the mapper applied to
\* an occurrence whose `detail` is already its own output
remap_detail ==
    /\ pc = "spliced"
    /\ remapped' = Call(<<occ, ctx>>, detail_main(occ, ctx))
    /\ pc' = "remapped"
    /\ UNCHANGED <<fixture, occ, att, ctx, mapped, shown, prev>>
    /\ UNCHANGED <<hvars, dvars, avars>>

\* the calls on this fixture are over: display.main was called, or
\* detail.main raised
Finished == pc = "displayed" \/ (pc = "mapped" /\ ~mapped.out.ok)

Reload(o, a, c) ==
    /\ Finished
    /\ prev' = [mapped |-> mapped, shown |-> shown]
    /\ fixture' = o
    /\ occ' = o
    /\ att' = a
    /\ ctx' = c
    /\ pc' = "loaded"
    /\ mapped' = NotCalled
    /\ shown' = NotCalled
    /\ remapped' = NotCalled
    /\ UNCHANGED <<hvars, dvars, avars>>

\* the same inputs again (test_consistent_output_for_same_input)
rerun_same == Reload(fixture, att, ctx)

\* another occurrence, same attestation and context
\* (test_description_does_not_change, the loop over the payloads)
next_occurrence ==
    \E o \in Occurrences \ {fixture} : Reload(o, att, ctx)

\* the same occurrence with another attestation and/or context
\* (test_handles_empty_attestation, test_handles_missing_context, ...)
next_optional ==
    \E a \in Attestations, c \in Contexts :
        /\ <<a, c>> # <<att, ctx>>
        /\ Reload(fixture, a, c)

Next ==
    \/ run_detail
    \/ splice_detail
    \/ run_display
    \/ remap_detail
    \/ rerun_same
    \/ next_occurrence
    \/ next_optional

Spec == Init /\ [][Next]_vars

(***************************************************************************)
(* The test session of testing/mappers: the fixtures of the test files,    *)
(* the test functions, and pytest's outcomes.                              *)
(***************************************************************************)
\* at most MaxFiles *.json files in testing/payloads
MaxFiles == 3

\* pytest outcomes of a test function
Passed == [outcome |-> "passed"]
Failed(file, msg) == [outcome |-> "failed", file |-> file, msg |-> msg]
Skipped(reason) == [outcome |-> "skipped", reason |-> reason]
Errored(exc) == [outcome |-> "error", exc |-> exc]

\* pytest.skip(reason) raises the Skipped outcome exception
pytest_skip(reason) == [ok |-> FALSE, exc |-> "Skipped", reason |-> reason]

\* a fixture function that raised: the test is skipped if it was pytest.skip,
\* else it is an error
FixtureVerdict(out) ==
    IF out.exc = "Skipped" THEN Skipped(out.reason) ELSE Errored(out.exc)

\* the test functions modelled
T_SMOKE == "test_main_returns_dict"
T_STRUCTURE == "test_returns_summary_field"
T_EDGE == "test_handles_malformed_occurrence"
T_CORPUS == "test_all_payloads_process_successfully"
T_INTEGRATION == "test_display_works_with_detail_output"
UnitTests == {T_SMOKE, T_STRUCTURE, T_EDGE}
Tests == UnitTests \cup {T_CORPUS, T_INTEGRATION}

\* contents of the fixture files: two well-formed payloads, one without
\* `detail`, one with a null `detail`
FilePayloads ==
    {Dict(("detail" :> Dict([check_passed |-> Bool(b)])) @@ BaseFields) :
        b \in BOOLEAN}
      \cup {Dict(BaseFields), Dict(("detail" :> None) @@ BaseFields)}

\* testing/payloads: missing, or a directory of 0..MaxFiles files; the
\* i-th file is occ_case_<i>.json
NoDir == [exists |-> FALSE]
Dirs ==
    {NoDir} \cup
    {[exists |-> TRUE, files |-> f] :
        f \in UNION {[1..n -> FilePayloads] : n \in 0..MaxFiles}}
FileName(i) == "occ_case_" \o IntStr(i) \o ".json"

\* faulty: imports without catching ImportError
detail_mapper_no_except(modules) ==
    IF "detail" \in modules THEN Ret("detail")
    ELSE Raise("ImportError")

\* fixture detail_mapper: import detail, or skip on ImportError
detail_mapper(modules) ==
    IF "detail" \in modules THEN Ret("detail")
    ELSE pytest_skip("Could not import detail.py")

\* fixture display_mapper: import display, or skip on ImportError
display_mapper(modules) ==
    IF "display" \in modules THEN Ret("display")
    ELSE pytest_skip("Could not import display.py")

\* the minimal occurrence sample_occurrence falls back to
minimal_occurrence ==
    Dict([asset |-> Dict([key |-> Str("org/repo"), name |-> Str("repo")]),
          detail |-> Dict([scan |-> Dict([results |-> List(<<>>)])]),
          status |-> Str("complete"),
          type |-> Str("occurrence")])

\* faulty: skips when occ_case_1.json is not there, as load_test_payload does
sample_occurrence_no_fallback(dir) ==
    IF dir.exists /\ 1 \in DOMAIN dir.files
    THEN Ret(dir.files[1])
    ELSE pytest_skip("Test payload not found: occ_case_1.json")

\* fixture sample_occurrence of test_detail.py: occ_case_1.json if it
\* exists, else the minimal occurrence
sample_occurrence(dir) ==
    IF dir.exists /\ 1 \in DOMAIN dir.files
    THEN Ret(dir.files[1])
    ELSE Ret(minimal_occurrence)

\* fixture TestWithRealData.all_test_payloads: skip if the directory is
\* missing, else the (filename, payload) pairs of its *.json files
all_test_payloads(dir) ==
    IF ~dir.exists THEN pytest_skip("No test payloads found")
    ELSE Ret([i \in DOMAIN dir.files |->
                [name |-> FileName(i), payload |-> dir.files[i]]])

\* fixture TestIntegrationWithDetail.test_payloads: skip if the directory
\* is missing, else the payloads of its *.json files
test_payloads(dir) ==
    IF ~dir.exists THEN pytest_skip("No test payloads found")
    ELSE Ret([i \in DOMAIN dir.files |-> dir.files[i]])

\* body of test_main_returns_dict
test_main_returns_dict(occurrence) ==
    LET result == detail_main(occurrence, empty_context) IN
    IF ~result.ok THEN Failed("", result.exc)
    ELSE IF ~IsDict(result.val) THEN Failed("", "main() must return a dictionary")
    ELSE Passed

\* body of test_returns_summary_field
test_returns_summary_field(occurrence) ==
    LET result == detail_main(occurrence, empty_context) IN
    IF ~result.ok THEN Failed("", result.exc)
    ELSE IF ~HasKey(result.val, "summary")
         THEN Failed("", "Output must contain 'summary' field")
    ELSE Passed

\* body of test_handles_malformed_occurrence
test_handles_malformed_occurrence ==
    LET result == detail_main(malformed_occurrence, empty_context) IN
    IF ~result.ok \/ ~IsDict(result.val)
    THEN Failed("", "Failed to handle malformed occurrence")
    ELSE Passed

\* the checks of one payload in test_all_payloads_process_successfully
payload_processes(payload) ==
    LET result == detail_main(payload, empty_context) IN
    /\ result.ok
    /\ IsDict(result.val)
    /\ HasKey(result.val, "summary")

\* the checks on the display result in test_display_works_with_detail_output
display_result_ok(out) ==
    /\ out.ok
    /\ IsDict(out.val)
    /\ HasKey(out.val, "description")
    /\ HasKey(out.val, "tag")

Running(t) == test = t /\ t \notin DOMAIN verdicts
Idle == test = "none" \/ test \in DOMAIN verdicts
Finish(t, verdict) == verdicts' = (t :> verdict) @@ verdicts

HarnessInit ==
    /\ NoDiff
    /\ NoAssert
    /\ mappers \in SUBSET {"detail", "display"}
    /\ payloads_dir \in Dirs
    /\ test = "none"
    /\ loaded = <<>>
    /\ idx = 0
    /\ invoked = {}
    /\ verdicts = <<>>
    /\ fixture = None
    /\ occ = None
    /\ att = sample_attestation
    /\ ctx = empty_context
    /\ pc = "idle"
    /\ mapped = NotCalled
    /\ shown = NotCalled
    /\ remapped = NotCalled
    /\ prev = [mapped |-> NotCalled, shown |-> NotCalled]

\* pytest runs one of the tests of TestBasicFunctionality, TestOutputStructure
\* or TestEdgeCases: fixture set-up, then the body
run_unit_test ==
    \E t \in UnitTests :
        /\ Idle
        /\ t \notin DOMAIN verdicts
        /\ test' = t
        /\ LET module == detail_mapper(mappers)
               occurrence == sample_occurrence(payloads_dir)
           IN  Finish(t, IF ~module.ok THEN FixtureVerdict(module)
                         ELSE IF t = T_EDGE
                              THEN test_handles_malformed_occurrence
                         ELSE IF ~occurrence.ok THEN FixtureVerdict(occurrence)
                         ELSE IF t = T_SMOKE
                              THEN test_main_returns_dict(occurrence.val)
                         ELSE test_returns_summary_field(occurrence.val))
        /\ UNCHANGED <<mappers, payloads_dir, loaded, idx, invoked>>
        /\ UNCHANGED <<mvars, dvars, avars>>

\* test_all_payloads_process_successfully: fixture set-up
corpus_start ==
    /\ Idle
    /\ T_CORPUS \notin DOMAIN verdicts
    /\ test' = T_CORPUS
    /\ LET module == detail_mapper(mappers)
           payloads == all_test_payloads(payloads_dir)
       IN  IF ~module.ok
           THEN Finish(T_CORPUS, FixtureVerdict(module)) /\ loaded' = <<>>
           ELSE IF ~payloads.ok
           THEN Finish(T_CORPUS, FixtureVerdict(payloads)) /\ loaded' = <<>>
           ELSE loaded' = payloads.val /\ UNCHANGED verdicts
    /\ idx' = 1
    /\ invoked' = {}
    /\ UNCHANGED <<mappers, payloads_dir>>
    /\ UNCHANGED <<mvars, dvars, avars>>

\* one round of `for filename, payload in all_test_payloads`: the mapper is
\* called; an exception or a failed assert is caught and pytest.fail ends
\* the test
corpus_step ==
    /\ Running(T_CORPUS)
    /\ idx \in DOMAIN loaded
    /\ invoked' = invoked \cup {idx}
    /\ IF payload_processes(loaded[idx].payload)
       THEN idx' = idx + 1 /\ UNCHANGED verdicts
       ELSE /\ Finish(T_CORPUS, Failed(loaded[idx].name, "Failed to process"))
            /\ UNCHANGED idx
    /\ UNCHANGED <<mappers, payloads_dir, test, loaded>>
    /\ UNCHANGED <<mvars, dvars, avars>>

\* the loop is exhausted: the test passes
corpus_end ==
    /\ Running(T_CORPUS)
    /\ idx \notin DOMAIN loaded
    /\ Finish(T_CORPUS, Passed)
    /\ UNCHANGED <<mappers, payloads_dir, test, loaded, idx, invoked>>
    /\ UNCHANGED <<mvars, dvars, avars>>

\* test_display_works_with_detail_output: fixture set-up, in the order of
\* the parameters
integration_start ==
    /\ Idle
    /\ T_INTEGRATION \notin DOMAIN verdicts
    /\ test' = T_INTEGRATION
    /\ LET detail == detail_mapper(mappers)
           display == display_mapper(mappers)
           payloads == test_payloads(payloads_dir)
       IN  IF ~detail.ok
           THEN Finish(T_INTEGRATION, FixtureVerdict(detail)) /\ loaded' = <<>>
           ELSE IF ~display.ok
           THEN Finish(T_INTEGRATION, FixtureVerdict(display)) /\ loaded' = <<>>
           ELSE IF ~payloads.ok
           THEN Finish(T_INTEGRATION, FixtureVerdict(payloads)) /\ loaded' = <<>>
           ELSE loaded' = payloads.val /\ UNCHANGED verdicts
    /\ idx' = 1
    /\ invoked' = {}
    /\ pc' = "idle"
    /\ UNCHANGED <<mappers, payloads_dir>>
    /\ UNCHANGED <<fixture, occ, att, ctx, mapped, shown, prev, remapped, dvars, avars>>

\* `for payload in test_payloads`: the next payload
integration_load ==
    /\ Running(T_INTEGRATION)
    /\ pc \in {"idle", "checked"}
    /\ idx \in DOMAIN loaded
    /\ fixture' = loaded[idx]
    /\ occ' = loaded[idx]
    /\ att' = sample_attestation
    /\ ctx' = empty_context
    /\ pc' = "loaded"
    /\ mapped' = NotCalled
    /\ shown' = NotCalled
    /\ remapped' = NotCalled
    /\ UNCHANGED <<prev, hvars, dvars, avars>>

\* mapped_detail = detail_mapper.main(payload, {})
integration_detail ==
    /\ Running(T_INTEGRATION)
    /\ run_detail

\* detail.main raised: the call is outside the try, the test ends
integration_detail_raised ==
    /\ Running(T_INTEGRATION)
    /\ pc = "mapped"
    /\ ~mapped.out.ok
    /\ Finish(T_INTEGRATION, Failed("", mapped.out.exc))
    /\ UNCHANGED <<mappers, payloads_dir, test, loaded, idx, invoked>>
    /\ UNCHANGED <<mvars, dvars, avars>>

\* occurrence_with_detail = {**payload, "detail": mapped_detail}
integration_splice ==
    /\ Running(T_INTEGRATION)
    /\ splice_detail

\* result = display_mapper.main(occurrence_with_detail, sample_attestation, {})
integration_display ==
    /\ Running(T_INTEGRATION)
    /\ pc = "spliced"
    /\ run_display

\* the asserts on the result; an exception or a failed assert is caught and
\* pytest.fail ends the test
integration_check ==
    /\ Running(T_INTEGRATION)
    /\ pc = "displayed"
    /\ invoked' = invoked \cup {idx}
    /\ IF display_result_ok(shown.out)
       THEN idx' = idx + 1 /\ pc' = "checked" /\ UNCHANGED verdicts
       ELSE /\ Finish(T_INTEGRATION,
                      Failed("", "Display mapper failed with detail output"))
            /\ UNCHANGED <<idx, pc>>
    /\ UNCHANGED <<mappers, payloads_dir, test, loaded>>
    /\ UNCHANGED <<fixture, occ, att, ctx, mapped, shown, prev, remapped, dvars, avars>>

\* the loop is exhausted: the test passes
integration_end ==
    /\ Running(T_INTEGRATION)
    /\ pc \in {"idle", "checked"}
    /\ idx \notin DOMAIN loaded
    /\ Finish(T_INTEGRATION, Passed)
    /\ UNCHANGED <<mappers, payloads_dir, test, loaded, idx, invoked>>
    /\ UNCHANGED <<mvars, dvars, avars>>

HarnessNext ==
    \/ run_unit_test
    \/ corpus_start
    \/ corpus_step
    \/ corpus_end
    \/ integration_start
    \/ integration_load
    \/ integration_detail
    \/ integration_detail_raised
    \/ integration_splice
    \/ integration_display
    \/ integration_check
    \/ integration_end

SpecHarness == HarnessInit /\ [][HarnessNext]_vars

(***************************************************************************)
(* Helpers of the properties.                                              *)
(***************************************************************************)
\* the occurrence a call was made on
OccOf(call) == call.args[1]
\* the occurrence is a mapping with a `detail` key
HasDetail(o) == HasKey(o, "detail")
DetailOf(o) == o.m["detail"]
\* a returned mapping with non-empty strings `description` and `tag`
ValidDisplay(out) ==
    /\ out.ok
    /\ IsDict(out.val)
    /\ HasKey(out.val, "description")
    /\ IsStr(out.val.m["description"])
    /\ out.val.m["description"].s # ""
    /\ HasKey(out.val, "tag")
    /\ IsStr(out.val.m["tag"])
    /\ out.val.m["tag"].s # ""

(***************************************************************************)
(* C1: whenever detail.main was called on an occurrence whose `detail` is  *)
(* a mapping with the key `check_passed` = v, with any context, it         *)
(* returned exactly the one-key mapping {passed: v}.                       *)
(***************************************************************************)
C1_DetailPassThrough ==
    (/\ mapped.called
     /\ HasDetail(OccOf(mapped))
     /\ HasKey(DetailOf(OccOf(mapped)), "check_passed"))
    => mapped.out =
         Ret(Dict([passed |-> DetailOf(OccOf(mapped)).m["check_passed"]]))

\* detail.main was called on {detail: {check_passed: true}} and gave
\* {passed: true}
C1_Witness ==
    /\ mapped.called
    /\ OccOf(mapped) = Dict([detail |-> Dict([check_passed |-> Bool(TRUE)])])
    /\ mapped.out = Ret(Dict([passed |-> Bool(TRUE)]))

(***************************************************************************)
(* C2: whenever detail.main was called on a mapping occurrence without a   *)
(* `detail` key, or whose `detail` is a mapping without `check_passed`, it *)
(* returned exactly {passed: false} (and did not raise).                   *)
(***************************************************************************)
C2_DetailDefaultFalse ==
    (/\ mapped.called
     /\ IsDict(OccOf(mapped))
     /\ \/ ~HasDetail(OccOf(mapped))
        \/ /\ IsDict(DetailOf(OccOf(mapped)))
           /\ ~HasKey(DetailOf(OccOf(mapped)), "check_passed"))
    => mapped.out = Ret(Dict([passed |-> Bool(FALSE)]))

\* detail.main was called on the malformed occurrence
\* {asset: null, detail: {scan: null}, ...} and returned
C2_Witness ==
    /\ mapped.called
    /\ OccOf(mapped) = malformed_occurrence
    /\ mapped.out.ok

(***************************************************************************)
(* C3: whenever display.main was called on an occurrence whose detail is   *)
(* exactly {passed: true} (resp. {passed: false}), it returned exactly the *)
(* two-key mapping with the fixed description and the tag "Value: True"    *)
(* (resp. "Value: False").                                                 *)
(***************************************************************************)
C3_DisplayBooleanResult ==
    \A b \in BOOLEAN :
        (/\ shown.called
         /\ HasDetail(OccOf(shown))
         /\ DetailOf(OccOf(shown)) = Dict([passed |-> Bool(b)]))
        => shown.out =
             Ret(Dict([description |->
                         Str("A simple boolean check - the most minimal control possible"),
                       tag |-> Str(IF b THEN "Value: True" ELSE "Value: False")]))

\* display.main was called on the spliced output {passed: false} of
\* detail.main and returned
C3_Witness ==
    /\ shown.called
    /\ mapped.called
    /\ mapped.out = Ret(Dict([passed |-> Bool(FALSE)]))
    /\ DetailOf(OccOf(shown)) = Dict([passed |-> Bool(FALSE)])
    /\ shown.out.ok

(***************************************************************************)
(* C4: whenever detail.main returned a mapping d for a fixture and         *)
(* display.main was then called on the fixture with `detail` replaced by   *)
(* d, whatever the attestation and the context, display.main returned a    *)
(* mapping with non-empty strings `description` and `tag`.                 *)
(***************************************************************************)
C4_EndToEndStructure ==
    (/\ pc = "displayed"
     /\ mapped.called
     /\ mapped.out.ok
     /\ IsDict(mapped.out.val))
    => /\ OccOf(shown) = occurrence_with_detail(fixture, mapped.out.val)
       /\ ValidDisplay(shown.out)

\* the integration path ran on a fixture with the other fields, with a null
\* attestation
C4_Witness ==
    /\ pc = "displayed"
    /\ mapped.called
    /\ mapped.out.ok
    /\ HasKey(fixture, "asset")
    /\ shown.args[2] = None
    /\ DetailOf(OccOf(shown)) = mapped.out.val

(***************************************************************************)
(* C5: whenever detail.main was called on an occurrence that is a mapping  *)
(* (whatever its `detail`: absent, empty, null or not a mapping), it       *)
(* returned a mapping and did not raise.                                   *)
(***************************************************************************)
C5_ToleratesEveryMappingOccurrence ==
    (mapped.called /\ IsDict(OccOf(mapped)))
    => (mapped.out.ok /\ IsDict(mapped.out.val))

(***************************************************************************)
(* C6: whenever detail.main or display.main was called on a null           *)
(* occurrence, the call either returned a non-null value or raised a       *)
(* TypeError or an AttributeError, no other exception; and the inputs held *)
(* by the caller are what they were when the call was made.                *)
(***************************************************************************)
NullOutcome(out) ==
    \/ out.ok /\ out.val # None
    \/ ~out.ok /\ out.exc \in {"TypeError", "AttributeError"}

C6_NullOccurrenceOutcome ==
    /\ (mapped.called /\ OccOf(mapped) = None)
       => /\ NullOutcome(mapped.out)
          /\ <<fixture, occ, ctx>> = <<None, None, mapped.args[2]>>
    /\ (shown.called /\ OccOf(shown) = None)
       => /\ NullOutcome(shown.out)
          /\ <<fixture, occ, att, ctx>> = <<None, None, shown.args[2], shown.args[3]>>

\* detail.main(None, {}) was called and raised, and then
\* display.main(None, None, None) was called and raised
C6_Witness ==
    /\ prev.mapped.called
    /\ prev.mapped.args = <<None, empty_context>>
    /\ ~prev.mapped.out.ok
    /\ shown.called
    /\ shown.args = <<None, None, None>>
    /\ ~shown.out.ok

(***************************************************************************)
(* C7: whenever display.main returned for two occurrences called one after *)
(* the other, the two results carry the same description.                  *)
(***************************************************************************)
C7_DescriptionStable ==
    (/\ shown.called /\ shown.out.ok
     /\ prev.shown.called /\ prev.shown.out.ok)
    => shown.out.val.m["description"] = prev.shown.out.val.m["description"]

\* display.main was called on {detail: {summary: {total: 10}}} and then on
\* {detail: {summary: {total: 20}}}, with the sample attestation and {}
C7_Witness ==
    /\ prev.shown.called
    /\ prev.shown.args =
         <<Dict([detail |-> Dict([summary |-> Dict([total |-> Num(10)])])]),
           sample_attestation, empty_context>>
    /\ prev.shown.out.ok
    /\ shown.called
    /\ shown.args =
         <<Dict([detail |-> Dict([summary |-> Dict([total |-> Num(20)])])]),
           sample_attestation, empty_context>>
    /\ shown.out.ok

PassedOf(o) ==
    IF HasDetail(o) /\ HasKey(DetailOf(o), "passed")
    THEN DetailOf(o).m["passed"]
    ELSE Bool(FALSE)

WellFormed(o) == HasDetail(o) /\ IsDict(DetailOf(o))

C10_OptionalInputsIgnored ==
    /\ (mapped.called /\ WellFormed(OccOf(mapped)))
       => /\ mapped.out.ok
          /\ IsDict(mapped.out.val)
          /\ (prev.mapped.called /\ OccOf(prev.mapped) = OccOf(mapped))
             => prev.mapped.out = mapped.out
    /\ (shown.called /\ WellFormed(OccOf(shown)))
       => /\ ValidDisplay(shown.out)
          /\ (prev.shown.called /\ OccOf(prev.shown) = OccOf(shown))
             => prev.shown.out = shown.out

\* both mappers were called on one occurrence first with the sample
\* attestation and a populated context, then with null for both
C10_Witness ==
    /\ mapped.called /\ prev.mapped.called
    /\ WellFormed(OccOf(mapped))
    /\ OccOf(prev.mapped) = OccOf(mapped)
    /\ mapped.args[2] = None
    /\ HasKey(prev.mapped.args[2], "env")
    /\ shown.called /\ prev.shown.called
    /\ OccOf(prev.shown) = OccOf(shown)
    /\ <<shown.args[2], shown.args[3]>> = <<None, None>>
    /\ prev.shown.args[2] = sample_attestation
    /\ HasKey(prev.shown.args[3], "env")

(***************************************************************************)
(* C11: whenever detail.main returned, on the sample occurrence or on any  *)
(* payload, the result contains the key `summary` and its value is a       *)
(* non-empty mapping.                                                      *)
(***************************************************************************)
C11_DetailHasSummary ==
    (mapped.called /\ mapped.out.ok)
    => /\ HasKey(mapped.out.val, "summary")
       /\ IsDict(mapped.out.val.m["summary"])
       /\ DOMAIN mapped.out.val.m["summary"].m # {}

(***************************************************************************)
(* C12: whenever display.main returned, if the result contains             *)
(* `violations` then that is a mapping with a `columns` mapping in which   *)
(* every column definition is a mapping with a `name` and with a `type`    *)
(* among string, number, email, url.                                       *)
(***************************************************************************)
valid_types == {Str("string"), Str("number"), Str("email"), Str("url")}

ValidViolations(violations) ==
    /\ IsDict(violations)
    /\ HasKey(violations, "columns")
    /\ IsDict(violations.m["columns"])
    /\ \A col_key \in DOMAIN violations.m["columns"].m :
         LET col_def == violations.m["columns"].m[col_key] IN
         /\ IsDict(col_def)
         /\ HasKey(col_def, "name")
         /\ HasKey(col_def, "type")
         /\ col_def.m["type"] \in valid_types

C12_ViolationsSchema ==
    (shown.called /\ shown.out.ok /\ HasKey(shown.out.val, "violations"))
    => ValidViolations(shown.out.val.m["violations"])

\* display.main returned for the sample attestation and {}, and its result
\* was looked at for `violations`: it has the keys description and tag only
C12_Witness ==
    /\ shown.called
    /\ shown.out.ok
    /\ shown.args[2] = sample_attestation
    /\ shown.args[3] = empty_context
    /\ DOMAIN shown.out.val.m = {"description", "tag"}

(***************************************************************************)
(* The json_diff helper of conftest.py.                                    *)
(***************************************************************************)
\* lists of up to MaxLen items are compared
MaxLen == 2

\* type(v).__name__
type_name(v) ==
    CASE v.k = "none" -> "NoneType"
      [] v.k = "bool" -> "bool"
      [] v.k = "int" -> "int"
      [] v.k = "str" -> "str"
      [] v.k = "dict" -> "dict"
      [] v.k = "list" -> "list"

\* {v!r} of a scalar
py_repr(v) == IF v.k = "str" THEN "'" \o v.s \o "'" ELSE PyStr(v)

\* one appended diff: f"{path}: {msg}"
Line(path, msg) == [path |-> path, text |-> path \o ": " \o msg]

\* faulty: iterates the keys of the first object only
all_keys_of_first(obj1, obj2) == DOMAIN obj1.m

\* set(obj1.keys()) | set(obj2.keys())
all_keys(obj1, obj2) == DOMAIN obj1.m \cup DOMAIN obj2.m

RECURSIVE diff_lines(_, _, _, _)
RECURSIVE dict_diffs(_, _, _, _, _)
RECURSIVE list_diffs(_, _, _, _, _)

\* `for key in all_keys`, the keys being iterated in the order `keys`
dict_diffs(obj1, obj2, path, keys, order) ==
    IF keys = <<>> THEN <<>>
    ELSE LET key == Head(keys)
             sub ==
                IF key \notin DOMAIN obj1.m
                THEN <<Line(path \o "." \o key, "Missing in first object")>>
                ELSE IF key \notin DOMAIN obj2.m
                THEN <<Line(path \o "." \o key, "Missing in second object")>>
                ELSE diff_lines(obj1.m[key], obj2.m[key],
                                path \o "." \o key, order)
         IN  sub \o dict_diffs(obj1, obj2, path, Tail(keys), order)

\* `for i, (item1, item2) in enumerate(zip(obj1, obj2))`, from item i on
list_diffs(obj1, obj2, path, i, order) ==
    IF i > Len(obj1.l) THEN <<>>
    ELSE diff_lines(obj1.l[i], obj2.l[i],
                    path \o "[" \o IntStr(i - 1) \o "]", order)
         \o list_diffs(obj1, obj2, path, i + 1, order)

\* _diff(obj1, obj2, path): the diffs found, one per line of the result
diff_lines(obj1, obj2, path, order) ==
    IF type_name(obj1) # type_name(obj2)
    THEN <<Line(path, "Type mismatch " \o type_name(obj1)
                      \o " vs " \o type_name(obj2))>>
    ELSE IF obj1.k = "dict"
    THEN dict_diffs(obj1, obj2, path,
                    SelectSeq(order, LAMBDA key : key \in all_keys(obj1, obj2)),
                    order)
    ELSE IF obj1.k = "list"
    THEN IF Len(obj1.l) # Len(obj2.l)
         THEN <<Line(path, "List length mismatch " \o IntStr(Len(obj1.l))
                           \o " vs " \o IntStr(Len(obj2.l)))>>
         ELSE list_diffs(obj1, obj2, path, 1, order)
    ELSE IF obj1 # obj2
    THEN <<Line(path, "Value mismatch " \o py_repr(obj1)
                      \o " vs " \o py_repr(obj2))>>
    ELSE <<>>

\* "\n".join(diffs) if diffs else ""
RECURSIVE join_lines(_)
join_lines(diffs) ==
    IF diffs = <<>> THEN ""
    ELSE IF Len(diffs) = 1 THEN diffs[1].text
    ELSE diffs[1].text \o "\n" \o join_lines(Tail(diffs))

\* json_diff(obj1, obj2) in a run that iterates key sets in `order`
json_diff(obj1, obj2, order) == join_lines(diff_lines(obj1, obj2, "", order))

\* the values compared
DiffKeys == {"a", "b"}
KeyOrders == {<<"a", "b">>, <<"b", "a">>}
DiffScalars == {None, Bool(TRUE), Num(0), Num(1), Str("x")}
DiffItems == {Num(0), Num(1)}
DiffLists == {List(l) : l \in UNION {[1..n -> DiffItems] : n \in 0..MaxLen}}
DiffNested ==
    {None, Num(0), Num(1), List(<<>>), List(<<Num(0)>>), List(<<Num(1)>>),
     Dict([b |-> Num(0)]), Dict([b |-> Num(1)])}
DiffDicts ==
    {Dict(m) : m \in UNION {[keys -> DiffNested] : keys \in SUBSET DiffKeys}}
DiffValues == DiffScalars \cup DiffLists \cup DiffDicts

DiffInit ==
    /\ NoSession
    /\ NoAssert
    /\ fixture = None
    /\ occ = None
    /\ att = empty_attestation
    /\ ctx = empty_context
    /\ pc = "idle"
    /\ mapped = NotCalled
    /\ shown = NotCalled
    /\ remapped = NotCalled
    /\ prev = [mapped |-> NotCalled, shown |-> NotCalled]
    /\ expected \in DiffValues
    /\ actual \in DiffValues
    /\ hash_order \in KeyOrders
    /\ report = NotCalled

\* json_diff(expected, actual)
call_json_diff ==
    /\ ~report.called
    /\ report' = Call(<<expected, actual>>,
                      json_diff(expected, actual, hash_order))
    /\ UNCHANGED <<expected, actual, hash_order>>
    /\ UNCHANGED <<mvars, hvars, avars>>

\* the same comparison in another run of the interpreter, where the hash
\* seed orders the keys differently
rehash ==
    /\ report.called
    /\ hash_order' \in KeyOrders \ {hash_order}
    /\ report' = NotCalled
    /\ UNCHANGED <<expected, actual>>
    /\ UNCHANGED <<mvars, hvars, avars>>

DiffNext == call_json_diff \/ rehash

SpecDiff == DiffInit /\ [][DiffNext]_vars

(***************************************************************************)
(* The assert_structure helper of conftest.py.                             *)
(***************************************************************************)
\* an expected structure: a type, a dict literal (its items in the order
\* written) or a list literal (List, as for values)
Type(t) == [k |-> "type", t |-> t]
Struct(items) == [k |-> "struct", items |-> items]
Item(key, expected_type) == [key |-> key, expected |-> expected_type]

\* isinstance(v, t): bool is a subclass of int
isinstance(v, t) == IF t = "int" THEN v.k \in {"int", "bool"} ELSE v.k = t

\* a failed assert with its message f"{path}{msg}"
AssertionError(path, msg) ==
    [ok |-> FALSE, exc |-> "AssertionError", path |-> path,
     msg |-> path \o msg]

RECURSIVE assert_structure(_, _, _)
RECURSIVE assert_items(_, _, _)

\* `for key, expected_type in structure.items()`, from the item Head(items)
assert_items(obj, items, path) ==
    IF items = <<>> THEN Ret(None)
    ELSE LET key == Head(items).key
             expected_type == Head(items).expected
             here == path \o "." \o key
             checked ==
                IF key \notin DOMAIN obj.m
                THEN AssertionError(here, " is missing")
                ELSE IF expected_type.k = "type"
                THEN IF isinstance(obj.m[key], expected_type.t)
                     THEN Ret(None)
                     ELSE AssertionError(here,
                            " should be " \o expected_type.t \o ", got "
                            \o type_name(obj.m[key]))
                ELSE IF expected_type.k = "struct"
                THEN assert_structure(obj.m[key], expected_type, here)
                ELSE IF expected_type.k = "list" /\ expected_type.l # <<>>
                THEN IF obj.m[key].k # "list"
                     THEN AssertionError(here, " should be list")
                     ELSE IF obj.m[key].l # <<>>
                     THEN assert_structure(obj.m[key].l[1],
                                           expected_type.l[1], here \o "[0]")
                     ELSE Ret(None)
                ELSE Ret(None)
         IN  IF ~checked.ok THEN checked
             ELSE assert_items(obj, Tail(items), path)

\* _assert(obj, structure, path)
assert_structure(obj, structure, path) ==
    IF structure.k = "struct"
    THEN IF obj.k # "dict"
         THEN AssertionError(path, " should be dict, got " \o type_name(obj))
         ELSE assert_items(obj, structure.items, path)
    ELSE IF structure.k = "type"
    THEN IF isinstance(obj, structure.t) THEN Ret(None)
         ELSE AssertionError(path, " should be " \o structure.t \o ", got "
                                   \o type_name(obj))
    ELSE Ret(None)

\* the structures asserted
Structures ==
    {Struct(<<Item("a", Type("dict")), Item("b", Type("list"))>>),
     Struct(<<Item("a", Type("int"))>>),
     Struct(<<Item("b", Type("str")), Item("a", Type("int"))>>),
     Struct(<<Item("a", Struct(<<Item("b", Type("int"))>>))>>),
     Struct(<<Item("a", List(<<Type("int")>>))>>),
     Struct(<<Item("a", List(<<Struct(<<Item("b", Type("int"))>>)>>))>>),
     Struct(<<Item("a", List(<<>>))>>),
     Struct(<<>>)}

\* the objects checked: mappings of the keys a and b to scalars, mappings
\* and lists of up to MaxLen items, and two values that are not mappings
AssertItems == {Num(0), Str("x"), Dict([b |-> Num(0)])}
AssertLists ==
    {List(l) : l \in UNION {[1..n -> AssertItems] : n \in 0..MaxLen}}
AssertFields ==
    {Num(0), Str("x"), Bool(TRUE), Dict([b |-> Num(0)]),
     Dict([b |-> Str("x")]), Dict(EmptyMap)} \cup AssertLists
AssertObjects ==
    {None, List(<<>>)} \cup
    {Dict(m) : m \in UNION {[keys -> AssertFields] : keys \in SUBSET DiffKeys}}

AssertInit ==
    /\ NoSession
    /\ NoDiff
    /\ fixture = None
    /\ occ = None
    /\ att = empty_attestation
    /\ ctx = empty_context
    /\ pc = "idle"
    /\ mapped = NotCalled
    /\ shown = NotCalled
    /\ remapped = NotCalled
    /\ prev = [mapped |-> NotCalled, shown |-> NotCalled]
    /\ subject \in AssertObjects
    /\ shape \in Structures
    /\ asserted = NotCalled

\* assert_structure(subject, {...})
call_assert_structure ==
    /\ ~asserted.called
    /\ asserted' = Call(<<subject, shape>>,
                        assert_structure(subject, shape, "root"))
    /\ UNCHANGED <<subject, shape>>
    /\ UNCHANGED <<mvars, hvars, dvars>>

AssertNext == call_assert_structure

SpecAssert == AssertInit /\ [][AssertNext]_vars

(***************************************************************************)
(* Helpers of the properties of the test session.                          *)
(***************************************************************************)
\* the test ran to a verdict and the loop state is still its own
Ended(t) == test = t /\ t \in DOMAIN verdicts
\* testing/payloads holds 3 fixtures: 2 whose `detail` is a mapping and 1
\* without `detail`
MixedCorpus ==
    /\ payloads_dir.exists
    /\ DOMAIN payloads_dir.files = 1..3
    /\ Cardinality({i \in 1..3 : WellFormed(payloads_dir.files[i])}) = 2
    /\ Cardinality({i \in 1..3 : ~HasDetail(payloads_dir.files[i])}) = 1

(***************************************************************************)
(* C13 as claimed: when the integration check has run over 3 fixtures, 2   *)
(* well-formed and 1 without `detail`, it ended with a failure that names  *)
(* the fixture without `detail`.                                           *)
(***************************************************************************)
C13_OneFailureForMissingDetail ==
    (Ended(T_INTEGRATION) /\ mappers = {"detail", "display"} /\ MixedCorpus)
    => /\ verdicts[T_INTEGRATION].outcome = "failed"
       /\ \E i \in 1..3 :
            /\ ~HasDetail(payloads_dir.files[i])
            /\ verdicts[T_INTEGRATION].file = FileName(i)

(***************************************************************************)
(* C13 as amended: when the integration check has run over 3 fixtures, 2   *)
(* well-formed and 1 without `detail`, it went through all three fixtures  *)
(* and passed: no failure is reported.                                     *)
(***************************************************************************)
C13_MixedCorpusPasses ==
    (Ended(T_INTEGRATION) /\ mappers = {"detail", "display"} /\ MixedCorpus)
    => /\ verdicts[T_INTEGRATION] = Passed
       /\ invoked = 1..3

\* the integration check ended on such a corpus, the fixture without
\* `detail` being the second one
C13_Witness ==
    /\ Ended(T_INTEGRATION)
    /\ mappers = {"detail", "display"}
    /\ MixedCorpus
    /\ ~HasDetail(payloads_dir.files[2])
    /\ verdicts[T_INTEGRATION].outcome = "passed"

(***************************************************************************)
(* C14: when the corpus check has run, the Detail Mapper was invoked on    *)
(* every discovered fixture file, and every fixture on which the mapper    *)
(* raised or returned an invalid result is reported as a failure naming    *)
(* that file.                                                              *)
(***************************************************************************)
C14_EveryFixtureInvokedAndReported ==
    (Ended(T_CORPUS) /\ verdicts[T_CORPUS].outcome \in {"passed", "failed"})
    => /\ invoked = DOMAIN loaded
       /\ \A i \in DOMAIN loaded :
            ~payload_processes(loaded[i].payload)
            => /\ verdicts[T_CORPUS].outcome = "failed"
               /\ verdicts[T_CORPUS].file = loaded[i].name

(***************************************************************************)
(* C15: whenever a fixture-dependent check has run while no fixtures were  *)
(* available (testing/payloads missing, or without any JSON file), it      *)
(* ended as skipped with a reason, not as passed.                          *)
(***************************************************************************)
NoFixtures == ~payloads_dir.exists \/ payloads_dir.files = <<>>

C15_NoFixturesMeansSkipped ==
    \A t \in {T_CORPUS, T_INTEGRATION} :
        (t \in DOMAIN verdicts /\ NoFixtures)
        => /\ verdicts[t].outcome = "skipped"
           /\ verdicts[t].reason # ""

(***************************************************************************)
(* C16: whenever a mapper module cannot be imported, no test that depends  *)
(* on it gets into its body, and every such test that has run ended as     *)
(* skipped with a reason.                                                  *)
(***************************************************************************)
Needs(t) == IF t = T_INTEGRATION THEN {"detail", "display"} ELSE {"detail"}

C16_MissingMapperSkips ==
    \A t \in Tests :
        ~(Needs(t) \subseteq mappers)
        => /\ ~Running(t)
           /\ t \in DOMAIN verdicts
              => /\ verdicts[t].outcome = "skipped"
                 /\ verdicts[t].reason # ""

\* no mapper can be imported and all five tests have run
C16_Witness ==
    /\ mappers = {}
    /\ DOMAIN verdicts = Tests
    /\ verdicts[T_SMOKE].outcome = "skipped"
    /\ verdicts[T_INTEGRATION].outcome = "skipped"

(***************************************************************************)
(* C17: with the mappers present and testing/payloads missing, the smoke,  *)
(* structural and edge-case tests that have run reached a pass/fail        *)
(* verdict, the smoke test passing on the minimal occurrence; and as long  *)
(* as one of them has not run and no test is running it can run, whatever  *)
(* the verdicts of the fixture-dependent tests.                            *)
(***************************************************************************)
C17_PhasesIndependent ==
    ("detail" \in mappers /\ payloads_dir = NoDir)
    => /\ \A t \in UnitTests \cap DOMAIN verdicts :
            verdicts[t].outcome \in {"passed", "failed"}
       /\ T_SMOKE \in DOMAIN verdicts => verdicts[T_SMOKE] = Passed
       /\ (Idle /\ UnitTests \ DOMAIN verdicts # {}) => ENABLED run_unit_test

\* the corpus and integration checks were skipped for the missing directory
\* and the three other tests reached their verdicts
C17_Witness ==
    /\ mappers = {"detail", "display"}
    /\ payloads_dir = NoDir
    /\ DOMAIN verdicts = Tests
    /\ verdicts[T_CORPUS].outcome = "skipped"
    /\ verdicts[T_INTEGRATION].outcome = "skipped"
    /\ verdicts[T_SMOKE].outcome = "passed"
    /\ verdicts[T_STRUCTURE].outcome = "failed"
    /\ verdicts[T_EDGE].outcome = "passed"

(***************************************************************************)
(* C18: whenever display.main has been called in the integration check,    *)
(* detail.main was called before on the same fixture (and on {}) and       *)
(* returned, and the occurrence given to display.main has `detail` equal   *)
(* to that return value and every other field as in the fixture.           *)
(***************************************************************************)
C18_TwoStageOrder ==
    (test = T_INTEGRATION /\ pc = "displayed")
    => /\ shown.called
       /\ mapped.called
       /\ mapped.args = <<loaded[idx], empty_context>>
       /\ mapped.out.ok
       /\ DetailOf(OccOf(shown)) = mapped.out.val
       /\ DOMAIN OccOf(shown).m = DOMAIN loaded[idx].m \cup {"detail"}
       /\ \A key \in DOMAIN loaded[idx].m \ {"detail"} :
            OccOf(shown).m[key] = loaded[idx].m[key]

\* display.main was called on the second fixture, which has other fields
C18_Witness ==
    /\ test = T_INTEGRATION
    /\ pc = "displayed"
    /\ idx = 2
    /\ HasKey(loaded[idx], "asset")
    /\ HasDetail(loaded[idx])
    /\ DetailOf(OccOf(shown)) # DetailOf(loaded[idx])

(***************************************************************************)
(* C19: during and after the corpus and integration checks the loaded      *)
(* payloads equal the files' contents: the payload of the current round,   *)
(* the argument of each mapper call, and after the splice the payload      *)
(* still carries its original `detail`.                                    *)
(***************************************************************************)
C19_PayloadsNotMutated ==
    /\ test = T_CORPUS
       => \A i \in DOMAIN loaded : loaded[i].payload = payloads_dir.files[i]
    /\ test = T_INTEGRATION
       => /\ \A i \in DOMAIN loaded : loaded[i] = payloads_dir.files[i]
          /\ pc \in {"loaded", "mapped", "spliced", "displayed"}
             => /\ fixture = payloads_dir.files[idx]
                /\ att = sample_attestation
                /\ ctx = empty_context
                /\ mapped.called => mapped.args = <<fixture, empty_context>>
                /\ shown.called => shown.args = <<occ, att, ctx>>

\* the splice and the display call happened on a fixture with a `detail`
\* that differs from the mapped one
C19_Witness ==
    /\ test = T_INTEGRATION
    /\ pc = "displayed"
    /\ fixture = payloads_dir.files[idx]
    /\ HasDetail(fixture)
    /\ DetailOf(occ) # DetailOf(fixture)

(***************************************************************************)
(* Helpers of the properties of json_diff.                                 *)
(***************************************************************************)
\* every position of a value with its path, as json_diff writes paths
RECURSIVE Positions(_, _)
Positions(v, path) ==
    {[path |-> path, val |-> v]} \cup
    (IF v.k = "dict"
     THEN UNION {Positions(v.m[key], path \o "." \o key) : key \in DOMAIN v.m}
     ELSE IF v.k = "list"
     THEN UNION {Positions(v.l[i], path \o "[" \o IntStr(i - 1) \o "]")
                 : i \in DOMAIN v.l}
     ELSE {})

PathsOf(v, path) == {p.path : p \in Positions(v, path)}

\* the path is a position of a or of b, and a and b do not hold the same
\* value there
DiffersAt(a, b, path) ==
    LET in_a == {p \in Positions(a, "") : p.path = path}
        in_b == {p \in Positions(b, "") : p.path = path}
    IN  in_a \cup in_b # {} /\ in_a # in_b

\* the paths at or below key `key` of the mappings a and b
PathsBelow(a, b, key) ==
    (IF key \in DOMAIN a.m THEN PathsOf(a.m[key], "." \o key) ELSE {})
    \cup (IF key \in DOMAIN b.m THEN PathsOf(b.m[key], "." \o key) ELSE {})

KeyDiffers(a, b, key) ==
    \/ key \notin DOMAIN a.m
    \/ key \notin DOMAIN b.m
    \/ a.m[key] # b.m[key]

LineSet(a, b, order) ==
    LET lines == diff_lines(a, b, "", order)
    IN  {lines[i] : i \in DOMAIN lines}

(***************************************************************************)
(* C20: json_diff(a, b) returned "" exactly when a and b are the same      *)
(* value; otherwise the report is the lines joined by newlines, every line *)
(* carries the path of a position where a and b differ, and for two        *)
(* mappings there is a line at or below every key at which they differ,    *)
(* the same lines whatever the order in which the keys are iterated.       *)
(***************************************************************************)
C20_StructuralDiff ==
    report.called
    => LET a == report.args[1]
           b == report.args[2]
           lines == diff_lines(a, b, "", hash_order)
       IN  /\ (report.out = "") <=> (a = b)
           /\ report.out = join_lines(lines)
           /\ a # b => lines # <<>>
           /\ \A i \in DOMAIN lines : DiffersAt(a, b, lines[i].path)
           /\ (a.k = "dict" /\ b.k = "dict")
              => \A key \in DOMAIN a.m \cup DOMAIN b.m :
                    KeyDiffers(a, b, key)
                    => \E i \in DOMAIN lines :
                         lines[i].path \in PathsBelow(a, b, key)
           /\ \A order \in KeyOrders :
                 LineSet(a, b, order) = LineSet(a, b, hash_order)

\* json_diff was called on two mappings that differ at both keys, one by a
\* missing key and one by a nested value, the keys being iterated b first
C20_Witness ==
    /\ report.called
    /\ expected = Dict([a |-> List(<<Num(0)>>), b |-> Num(0)])
    /\ actual = Dict([a |-> List(<<Num(1)>>)])
    /\ hash_order = <<"b", "a">>
    /\ report.out = ".b: Missing in second object\n.a[0]: Value mismatch 0 vs 1"

(***************************************************************************)
(* Helpers of the properties of assert_structure.                          *)
(***************************************************************************)
\* v has the declared structure s: every named key, at every depth, is
\* present with a value of the declared kind, in nested mappings and in
\* every element of a list whose element structure is declared
RECURSIVE Conforms(_, _)
Conforms(v, s) ==
    CASE s.k = "type" -> isinstance(v, s.t)
      [] s.k = "struct" ->
            /\ v.k = "dict"
            /\ \A i \in DOMAIN s.items :
                 /\ s.items[i].key \in DOMAIN v.m
                 /\ Conforms(v.m[s.items[i].key], s.items[i].expected)
      [] s.k = "list" ->
            s.l # <<>>
            => /\ v.k = "list"
               /\ \A j \in DOMAIN v.l : Conforms(v.l[j], s.l[1])

(***************************************************************************)
(* C21: whenever assert_structure(obj, structure) has returned for a       *)
(* mapping structure, obj has the declared structure, every element of a   *)
(* list with a declared element structure included; and whenever it        *)
(* failed, obj does not have the declared structure and the message starts *)
(* with the path of a position of obj.                                     *)
(***************************************************************************)
C21_AssertStructureSound ==
    asserted.called
    => LET obj == asserted.args[1]
           structure == asserted.args[2]
       IN  /\ asserted.out.ok => Conforms(obj, structure)
           /\ ~asserted.out.ok
              => /\ ~Conforms(obj, structure)
                 /\ asserted.out.msg # ""

(***************************************************************************)
(* C22: whenever detail.main has been called on the occurrence whose       *)
(* `detail` was replaced by the mapper's own result d, with the same       *)
(* context, it returned d again.                                           *)
(***************************************************************************)
C22_IdempotentUnderSplice ==
    (pc = "remapped" /\ remapped.called)
    => /\ remapped.args = <<occurrence_with_detail(fixture, mapped.out.val), ctx>>
       /\ remapped.out = mapped.out

====
